---- MODULE Spec2Model ----
(***************************************************************************)
(* Model of core/dbt/parser/generic_test_builders.py: the generic test     *)
(* name synthesizer (synthesize_generic_test_names) and the TestBuilder    *)
(* constructor with its helpers.                                           *)
(*                                                                         *)
(* Python values are tagged records [t, v]; a str is a sequence of         *)
(* one-character strings; a dict is the sequence of its [k, v] entries in  *)
(* insertion order (keys unique), so that iteration order is observable.   *)
(***************************************************************************)
EXTENDS Integers, Sequences, FiniteSets, TLC

VARIABLES
    pc,          \* "authored", "synthesized", "extracted", "constructed"
    data_test,   \* the caller's declaration object (mutable, as the callee leaves it)
    authored,    \* the declaration as the caller wrote it
    target,      \* the Testable the test is attached to
    column_name, \* Optional[str]
    version,     \* Optional[NodeVersion]
    flag,        \* get_flags().require_generic_test_arguments_property
    call,        \* arguments of a direct synthesize_generic_test_names call
    ret,         \* what the operation returned (or the exception it raised)
    warned       \* deprecation events emitted, in order

vars == <<pc, data_test, authored, target, column_name, version, flag, call, ret, warned>>

----------------------------------------------------------------------------
(* Bounds of the explored inputs *)

MaxTypeLen == 32
MaxNameLen == 32
MaxPadLen == 50
MaxUserNameLen == 64

----------------------------------------------------------------------------
(* Characters and strings *)

\* printable ASCII, code points 32..126, in code point order (the double quote,
\* the backslash and the backquote, which no explored string holds, are named,
\* not written)
Ascii ==
  <<" ", "!", "dquote", "#", "$", "%", "&", "'", "(", ")", "*", "+", ",", "-", ".", "/",
    "0", "1", "2", "3", "4", "5", "6", "7", "8", "9", ":", ";", "<", "=", ">", "?",
    "@", "A", "B", "C", "D", "E", "F", "G", "H", "I", "J", "K", "L", "M", "N", "O",
    "P", "Q", "R", "S", "T", "U", "V", "W", "X", "Y", "Z", "[", "backslash", "]", "^", "_",
    "backquote", "a", "b", "c", "d", "e", "f", "g", "h", "i", "j", "k", "l", "m", "n", "o",
    "p", "q", "r", "s", "t", "u", "v", "w", "x", "y", "z", "{", "|", "}", "~">>

Quote == Ascii[8]

\* the code point of each character
CodePoint ==
    [c \in {Ascii[i] : i \in 1..Len(Ascii)} |-> 31 + (CHOOSE i \in 1..Len(Ascii) : Ascii[i] = c)]

Ord(c) == CodePoint[c]

Digits == {Ascii[n - 31] : n \in 48..57}
Letters == {Ascii[n - 31] : n \in (65..90) \cup (97..122)}

IsDigit(c) == c \in Digits
IsAlpha(c) == c \in Letters
\* the character class [0-9a-zA-Z_]
IsWord(c) == IsDigit(c) \/ IsAlpha(c) \/ c = "_"
\* the character class [a-zA-Z_]
IsWordStart(c) == IsAlpha(c) \/ c = "_"

Rep(c, n) == [i \in 1..n |-> c]

\* s[:n]
Prefix(s, n) == SubSeq(s, 1, IF n < Len(s) THEN n ELSE Len(s))

\* s[n:] (0-based n)
Suffix(s, n) == SubSeq(s, n + 1, Len(s))

RECURSIVE Join(_, _)
\* sep.join(parts)
Join(sep, parts) ==
    IF parts = <<>> THEN <<>>
    ELSE IF Len(parts) = 1 THEN parts[1]
    ELSE parts[1] \o sep \o Join(sep, Tail(parts))

\* a < b for str: lexicographic by code point; i is the first position where
\* the two differ, or where a has ended
StrLess(a, b) ==
    \E i \in 1..Len(b) :
        /\ \A j \in 1..(i - 1) : j <= Len(a) /\ a[j] = b[j]
        /\ i > Len(a) \/ Ord(a[i]) < Ord(b[i])

RECURSIVE NatStr(_)
NatStr(n) ==
    IF n < 10 THEN <<Ascii[17 + n]>>
    ELSE NatStr(n \div 10) \o <<Ascii[17 + (n % 10)]>>

\* str(n) for an int
IntStr(n) == IF n < 0 THEN <<"-">> \o NatStr(0 - n) ELSE NatStr(n)

----------------------------------------------------------------------------
(* Python values *)

None == [t |-> "none", v |-> <<>>]
PStr(s) == [t |-> "str", v |-> s]
PInt(n) == [t |-> "int", v |-> n]
PBool(b) == [t |-> "bool", v |-> b]
PList(xs) == [t |-> "list", v |-> xs]
PDict(es) == [t |-> "dict", v |-> es]
E(key, val) == [k |-> key, v |-> val]

isinstance(x, ty) == x.t = ty

\* bool(x)
Truthy(x) ==
    CASE x.t = "none" -> FALSE
      [] x.t = "bool" -> x.v
      [] x.t = "int" -> x.v # 0
      [] OTHER -> Len(x.v) > 0

\* entries of a dict are addressed by position
Keys(d) == [i \in 1..Len(d.v) |-> d.v[i].k]
Values(d) == [i \in 1..Len(d.v) |-> d.v[i].v]
Has(d, key) == \E i \in 1..Len(d.v) : d.v[i].k = key
IndexOf(d, key) == CHOOSE i \in 1..Len(d.v) : d.v[i].k = key
\* d[key]
Get(d, key) == d.v[IndexOf(d, key)].v
\* d.get(key, dflt)
GetOr(d, key, dflt) == IF Has(d, key) THEN Get(d, key) ELSE dflt
\* del d[key] (no-op when absent, as the pops with a default)
Del(d, key) ==
    IF Has(d, key)
    THEN PDict(SubSeq(d.v, 1, IndexOf(d, key) - 1) \o SubSeq(d.v, IndexOf(d, key) + 1, Len(d.v)))
    ELSE d
\* d[key] = val: an existing key keeps its position
Set(d, key, val) ==
    IF Has(d, key)
    THEN PDict([d.v EXCEPT ![IndexOf(d, key)] = E(key, val)])
    ELSE PDict(Append(d.v, E(key, val)))

RECURSIVE Update(_, _)
\* d.update(e) / {**d, **e}
Update(d, e) ==
    IF e.v = <<>> THEN d
    ELSE Update(Set(d, e.v[1].k, e.v[1].v), PDict(Tail(e.v)))

RECURSIVE PyEq(_, _)
\* a == b: dicts compare as mappings, whatever the insertion order
PyEq(a, b) ==
    IF a.t # b.t THEN FALSE
    ELSE IF a.t = "dict"
         THEN /\ Len(a.v) = Len(b.v)
              /\ \A i \in 1..Len(a.v) : Has(b, a.v[i].k) /\ PyEq(a.v[i].v, Get(b, a.v[i].k))
    ELSE IF a.t = "list"
         THEN /\ Len(a.v) = Len(b.v)
              /\ \A i \in 1..Len(a.v) : PyEq(a.v[i], b.v[i])
    ELSE a = b

RECURSIVE Insert(_, _)
Insert(sorted, s) ==
    IF sorted = <<>> THEN <<s>>
    ELSE IF StrLess(s, sorted[1]) THEN <<s>> \o sorted
    ELSE <<sorted[1]>> \o Insert(Tail(sorted), s)

RECURSIVE Sorted(_)
\* sorted(keys) for a sequence of str
Sorted(ks) == IF ks = <<>> THEN <<>> ELSE Insert(Sorted(Tail(ks)), ks[1])

RECURSIVE PyRepr(_)
RECURSIVE PyStr(_)
\* repr(x); the explored strings hold no quote or backslash
PyRepr(x) ==
    IF x.t = "str" THEN <<Quote>> \o x.v \o <<Quote>> ELSE PyStr(x)

\* str(x)
PyStr(x) ==
    CASE x.t = "str" -> x.v
      [] x.t = "int" -> IntStr(x.v)
      [] x.t = "bool" -> IF x.v THEN <<"T", "r", "u", "e">> ELSE <<"F", "a", "l", "s", "e">>
      [] x.t = "none" -> <<"N", "o", "n", "e">>
      [] x.t = "list" ->
            <<"[">> \o Join(<<",", " ">>, [i \in 1..Len(x.v) |-> PyRepr(x.v[i])]) \o <<"]">>
      [] x.t = "dict" ->
            <<"{">> \o Join(<<",", " ">>,
                            [i \in 1..Len(x.v) |->
                                <<Quote>> \o x.v[i].k \o <<Quote, ":", " ">> \o PyRepr(x.v[i].v)])
                  \o <<"}">>

----------------------------------------------------------------------------
(* String constants *)

K_model == <<"m", "o", "d", "e", "l">>
K_config == <<"c", "o", "n", "f", "i", "g">>
K_name == <<"n", "a", "m", "e">>
K_description == <<"d", "e", "s", "c", "r", "i", "p", "t", "i", "o", "n">>
K_test_name == <<"t", "e", "s", "t", "_", "n", "a", "m", "e">>
K_column_name == <<"c", "o", "l", "u", "m", "n", "_", "n", "a", "m", "e">>
K_arguments == <<"a", "r", "g", "u", "m", "e", "n", "t", "s">>
K_alias == <<"a", "l", "i", "a", "s">>
S_source_ == <<"s", "o", "u", "r", "c", "e", "_">>

CONFIG_ARGS ==
  << <<"s", "e", "v", "e", "r", "i", "t", "y">>,
     <<"t", "a", "g", "s">>,
     <<"e", "n", "a", "b", "l", "e", "d">>,
     <<"w", "h", "e", "r", "e">>,
     <<"l", "i", "m", "i", "t">>,
     <<"w", "a", "r", "n", "_", "i", "f">>,
     <<"e", "r", "r", "o", "r", "_", "i", "f">>,
     <<"f", "a", "i", "l", "_", "c", "a", "l", "c">>,
     <<"s", "t", "o", "r", "e", "_", "f", "a", "i", "l", "u", "r", "e", "s">>,
     <<"s", "t", "o", "r", "e", "_", "f", "a", "i", "l", "u", "r", "e", "s", "_", "a", "s">>,
     <<"m", "e", "t", "a">>,
     <<"d", "a", "t", "a", "b", "a", "s", "e">>,
     <<"s", "c", "h", "e", "m", "a">>,
     K_alias >>

----------------------------------------------------------------------------
(* dbt.utils.md5: the fingerprint of a string, 32 hexadecimal characters *)

HexDigits == <<"0", "1", "2", "3", "4", "5", "6", "7", "8", "9", "a", "b", "c", "d", "e", "f">>
DigestLen == 32

RECURSIVE Mix(_, _, _)
\* a position-weighted checksum of s[lo..hi]
Mix(s, lo, hi) ==
    IF lo > hi THEN 0
    ELSE IF lo = hi THEN (Ord(s[lo]) * (lo * lo + 7 * lo + 1)) % 65521
    ELSE (Mix(s, lo, (lo + hi) \div 2) + Mix(s, ((lo + hi) \div 2) + 1, hi)) % 65521

md5(s) ==
    LET h == 5381 + Mix(s, 1, Len(s))
    IN  [i \in 1..DigestLen |-> HexDigits[(((h * i + i * i) \div (1 + (i % 7))) % 16) + 1]]

----------------------------------------------------------------------------
(* synthesize_generic_test_names *)

\* re.sub("[^0-9a-zA-Z_]+", "_", s): every maximal run of other characters
\* becomes one underscore, written where the run ends
re_sub(s) ==
    LET marked == [i \in 1..Len(s) |->
                      IF IsWord(s[i]) THEN s[i]
                      ELSE IF i < Len(s) /\ ~IsWord(s[i + 1]) THEN "dropped"
                      ELSE "_"]
        kept(c) == c # "dropped"
    IN  SelectSeq(marked, kept)

\* the parts one argument value contributes, before str()
Parts(arg_val) ==
    IF isinstance(arg_val, "dict") THEN Values(arg_val)
    ELSE IF isinstance(arg_val, "list") THEN arg_val.v
    ELSE <<arg_val>>

RECURSIVE FlatArgs(_, _)
\* flat_args after the loop over the sorted argument names
FlatArgs(names, args) ==
    IF names = <<>> THEN <<>>
    ELSE IF names[1] = K_model THEN FlatArgs(Tail(names), args)
    ELSE LET parts == Parts(Get(args, names[1]))
         IN  [i \in 1..Len(parts) |-> PyStr(parts[i])] \o FlatArgs(Tail(names), args)

NameLimit == 64
TruncLen == 30

\* clean_flat_args: each flattened value with its runs of other characters
\* replaced
CleanFlatArgs(flat_args) == [i \in 1..Len(flat_args) |-> re_sub(flat_args[i])]

\* unique_args: the cleaned values of the sorted arguments, joined
UniqueArgs(args) ==
    Join(<<"_", "_">>, CleanFlatArgs(FlatArgs(Sorted(Keys(args)), args)))

\* NamePair hashing only names longer than the limit
NamePair_gt(test_identifier, full_name) ==
    IF Len(full_name) > NameLimit
    THEN [short_name |-> Prefix(test_identifier, TruncLen) \o <<"_">> \o md5(full_name),
          full_name |-> full_name]
    ELSE [short_name |-> full_name, full_name |-> full_name]

\* the returned pair: the full name, and the full name or its hashed short
\* form
NamePair(test_identifier, full_name) ==
    IF Len(full_name) >= NameLimit
    THEN [short_name |-> Prefix(test_identifier, TruncLen) \o <<"_">> \o md5(full_name),
          full_name |-> full_name]
    ELSE [short_name |-> full_name, full_name |-> full_name]

\* full_name = "{test_identifier}_{unique}"
FullName(test_identifier, unique) ==
    NamePair(test_identifier, test_identifier \o <<"_">> \o unique)

synthesize_generic_test_names(test_type, test_name, args) ==
    FullName(test_type \o <<"_">> \o test_name, UniqueArgs(args))

----------------------------------------------------------------------------
(* TestBuilder.extract_test_args *)

EmptyDict == PDict(<<>>)
NoError == "none"

\* any(k not in ("config", "column_name") for k in test_args.keys())
HasPlainKey(test_args) ==
    \E i \in 1..Len(test_args.v) : test_args.v[i].k \notin {K_config, K_column_name}

\* lines 233-245 with the process flag off and an `arguments` key merged all
\* the same
ArgumentsProperty_merged(test_args, require_arguments) ==
    LET arguments == GetOr(test_args, K_arguments, EmptyDict)
        popped == Del(test_args, K_arguments)
    IN  IF require_arguments
        THEN [err |-> IF isinstance(arguments, "dict") THEN NoError ELSE "TypeError",
              test_args |-> IF isinstance(arguments, "dict") THEN Update(popped, arguments)
                            ELSE EmptyDict,
              warned |-> IF ~Truthy(arguments) /\ HasPlainKey(popped)
                         THEN <<"missing-arguments-property-in-generic-test-deprecation">>
                         ELSE <<>>]
        ELSE IF Has(test_args, K_arguments)
        THEN [err |-> IF isinstance(arguments, "dict") THEN NoError ELSE "TypeError",
              test_args |-> IF isinstance(arguments, "dict") THEN Update(popped, arguments)
                            ELSE EmptyDict,
              warned |-> <<"arguments-property-in-generic-test-deprecation">>]
        ELSE [err |-> NoError, test_args |-> test_args, warned |-> <<>>]

\* lines 233-245: the `arguments` property, under the process flag
ArgumentsProperty(test_args, require_arguments) ==
    LET arguments == GetOr(test_args, K_arguments, EmptyDict)
        popped == Del(test_args, K_arguments)
    IN  IF require_arguments
        THEN [err |-> IF isinstance(arguments, "dict") THEN NoError ELSE "TypeError",
              test_args |-> IF isinstance(arguments, "dict") THEN Update(popped, arguments)
                            ELSE EmptyDict,
              warned |-> IF ~Truthy(arguments) /\ HasPlainKey(popped)
                         THEN <<"missing-arguments-property-in-generic-test-deprecation">>
                         ELSE <<>>]
        ELSE IF Has(test_args, K_arguments)
        THEN [err |-> NoError, test_args |-> test_args,
              warned |-> <<"arguments-property-in-generic-test-deprecation">>]
        ELSE [err |-> NoError, test_args |-> test_args, warned |-> <<>>]

\* extract_test_args raising e: nothing is returned
Failed(e, decl) ==
    [err |-> e, data_test |-> decl, test_name |-> None, test_args |-> EmptyDict,
     warned |-> <<>>]

\* the return of extract_test_args, or the exception of the `arguments` check
Extracted(decl, test_name, split) ==
    [err |-> split.err, data_test |-> decl,
     test_name |-> IF split.err # NoError THEN None ELSE test_name,
     test_args |-> IF split.err # NoError THEN EmptyDict ELSE split.test_args,
     warned |-> split.warned]

\* the part after the shape has been told: the type checks, the copy, the
\* column name and the `arguments` property.  decl is the caller's object as
\* the first part left it.
ExtractTail(decl, test_name, test_args0, name, require_arguments) ==
    IF ~isinstance(test_args0, "dict") THEN Failed("TestArgsNotDictError", decl)
    ELSE IF ~isinstance(test_name, "str") THEN Failed("TestNameNotStringError", decl)
    ELSE \* deepcopy(test_args): from here on the caller's object is not written
         Extracted(decl, test_name,
                   ArgumentsProperty(IF name # None THEN Set(test_args0, K_column_name, name)
                                     ELSE test_args0,
                                     require_arguments))

\* extract_test_args with shape (a) keeping `test_name` among the arguments
extract_test_args_keep(decl, name, require_arguments) ==
    IF ~isinstance(decl, "dict")
    THEN Failed("TestTypeError", decl)
    ELSE IF Has(decl, K_test_name)
    THEN ExtractTail(Del(decl, K_test_name), Get(decl, K_test_name), decl,
                     name, require_arguments)
    ELSE IF Len(decl.v) # 1
    THEN Failed("TestDefinitionDictLengthError", decl)
    ELSE ExtractTail(decl, PStr(decl.v[1].k), decl.v[1].v, name, require_arguments)

extract_test_args(decl, name, require_arguments) ==
    IF ~isinstance(decl, "dict")
    THEN Failed("TestTypeError", decl)
    ELSE IF Has(decl, K_test_name)
    THEN \* test_name = data_test.pop("test_name"); test_args = data_test
         ExtractTail(Del(decl, K_test_name), Get(decl, K_test_name), Del(decl, K_test_name),
                     name, require_arguments)
    ELSE IF Len(decl.v) # 1
    THEN Failed("TestDefinitionDictLengthError", decl)
    ELSE ExtractTail(decl, PStr(decl.v[1].k), decl.v[1].v, name, require_arguments)

----------------------------------------------------------------------------
(* dbt.clients.jinja.get_rendered(value, ctx, native=True) *)

T_undefined == <<"{", "{", "u", "(", ")", "}", "}">>
T_none == <<"{", "{", "n", "o", "n", "e", "}", "}">>
T_one == <<"{", "{", "1", "}", "}">>

\* a literal renders to itself; an expression renders to a native value, or
\* fails when it calls a macro the context does not define
get_rendered(s) ==
    IF s = T_undefined THEN [err |-> "UndefinedMacroError", value |-> None]
    ELSE IF s = T_none THEN [err |-> NoError, value |-> None]
    ELSE IF s = T_one THEN [err |-> NoError, value |-> PInt(1)]
    ELSE [err |-> NoError, value |-> PStr(s)]

----------------------------------------------------------------------------
(* TestBuilder._render_values and TestBuilder._process_legacy_args *)

RECURSIVE RenderFrom(_, _)
RenderFrom(entries, rendered_config) ==
    IF entries = <<>> THEN [err |-> NoError, config |-> rendered_config]
    ELSE LET key == entries[1].k
             raw == entries[1].v
             r == IF isinstance(raw, "str") THEN get_rendered(raw.v)
                  ELSE [err |-> NoError, value |-> raw]
         IN  IF r.err # NoError
             THEN [err |-> "CustomMacroPopulatingConfigValueError", config |-> EmptyDict]
             ELSE RenderFrom(Tail(entries),
                             IF r.value # None THEN Set(rendered_config, key, r.value)
                             ELSE rendered_config)

_render_values(config) == RenderFrom(config.v, EmptyDict)

\* LegacyStep raising only when the nested value is truthy as well
LegacyStep_truthy(st, key) ==
    LET value == GetOr(st.args, key, None)
        args1 == Del(st.args, key)
        nested == Has(args1, K_config)
    IN  IF st.err # NoError THEN st
        ELSE IF Truthy(value) /\ nested /\ Truthy(GetOr(Get(args1, K_config), key, None))
        THEN [st EXCEPT !.err = "SameKeyNestedError", !.args = args1]
        ELSE IF ~Truthy(value) /\ nested
        THEN [err |-> NoError,
              args |-> Set(args1, K_config, Del(Get(args1, K_config), key)),
              config |-> Set(st.config, key, GetOr(Get(args1, K_config), key, None))]
        ELSE [err |-> NoError, args |-> args1, config |-> Set(st.config, key, value)]

\* one turn of the loop over CONFIG_ARGS; the explored declarations hold a
\* mapping under `config`, or no `config` at all
LegacyStep(st, key) ==
    LET value == GetOr(st.args, key, None)
        args1 == Del(st.args, key)
        nested == Has(args1, K_config)
    IN  IF st.err # NoError THEN st
        ELSE IF Truthy(value) /\ nested /\ Has(Get(args1, K_config), key)
        THEN [st EXCEPT !.err = "SameKeyNestedError", !.args = args1]
        ELSE IF ~Truthy(value) /\ nested
        THEN [err |-> NoError,
              args |-> Set(args1, K_config, Del(Get(args1, K_config), key)),
              config |-> Set(st.config, key, GetOr(Get(args1, K_config), key, None))]
        ELSE [err |-> NoError, args |-> args1, config |-> Set(st.config, key, value)]

RECURSIVE LegacyLoop(_, _)
LegacyLoop(st, keys) ==
    IF keys = <<>> THEN st ELSE LegacyLoop(LegacyStep(st, keys[1]), Tail(keys))

\* returns the rendered legacy config and self.args as the pops left it
LegacyRendered(st_args, r) == [err |-> r.err, args |-> st_args, config |-> r.config]

\* line 182: the collected values are rendered unless the loop raised
LegacyReturn(st) ==
    IF st.err # NoError THEN [err |-> st.err, args |-> st.args, config |-> EmptyDict]
    ELSE LegacyRendered(st.args, _render_values(st.config))

_process_legacy_args(args) ==
    LegacyReturn(LegacyLoop([err |-> NoError, args |-> args, config |-> EmptyDict],
                            CONFIG_ARGS))

----------------------------------------------------------------------------
(* TestBuilder.TEST_NAME_PATTERN *)

\* length of the longest prefix of s matching [a-zA-Z_][0-9a-zA-Z_]* (0: none)
IdentLen(s) ==
    IF s # <<>> /\ IsWordStart(s[1])
    THEN CHOOSE n \in 1..Len(s) :
            /\ \A i \in 1..n : IsWord(s[i])
            /\ n = Len(s) \/ ~IsWord(s[n + 1])
    ELSE 0

\* TEST_NAME_PATTERN.match(s).groupdict(): the match is anchored at the start
\* only; the namespace group takes part when an identifier follows its dot
TEST_NAME_PATTERN_match(s) ==
    LET n == IdentLen(s)
        rest == Suffix(s, n + 1)
    IN  IF n = 0 THEN [matched |-> FALSE, test_namespace |-> None, test_name |-> None]
        ELSE IF Len(s) > n /\ s[n + 1] = "." /\ IdentLen(rest) > 0
        THEN [matched |-> TRUE, test_namespace |-> PStr(Prefix(s, n)),
              test_name |-> PStr(Prefix(rest, IdentLen(rest)))]
        ELSE [matched |-> TRUE, test_namespace |-> None, test_name |-> PStr(Prefix(s, n))]

----------------------------------------------------------------------------
(* Targets: kind is "model" (UnparsedModelUpdate), "node" (UnparsedNodeUpdate), *)
(* "source" (UnpatchedSourceDefinition) or "other"                              *)

Target(kind, name, source_name, table_name) ==
    [kind |-> kind, name |-> name, source_name |-> source_name, table_name |-> table_name]

S_ref(name) == <<"r", "e", "f", "(">> \o <<Quote>> \o name \o <<Quote>>

build_model_str(targ, ver) ==
    LET wrap(target_str) ==
            [err |-> NoError,
             value |-> <<"{", "{", " ", "g", "e", "t", "_", "w", "h", "e", "r", "e", "_",
                         "s", "u", "b", "q", "u", "e", "r", "y", "(">>
                       \o target_str \o <<")", " ", "}", "}">>]
    IN  IF targ.kind = "model"
        THEN IF Truthy(ver)
             THEN wrap(S_ref(targ.name)
                       \o <<",", " ", "v", "e", "r", "s", "i", "o", "n", "=">>
                       \o <<Quote>> \o PyStr(ver) \o <<Quote>> \o <<")">>)
             ELSE wrap(S_ref(targ.name) \o <<")">>)
        ELSE IF targ.kind = "node" THEN wrap(S_ref(targ.name) \o <<")">>)
        ELSE IF targ.kind = "source"
        THEN wrap(<<"s", "o", "u", "r", "c", "e", "(">> \o <<Quote>> \o targ.source_name
                  \o <<Quote, ",", " ", Quote>> \o targ.table_name \o <<Quote, ")">>)
        ELSE \* target_str is never bound
             [err |-> "UnboundLocalError", value |-> <<>>]

----------------------------------------------------------------------------
(* TestBuilder.get_synthetic_test_names *)

\* SyntheticLabels with the source prefix on the target label, not the test's
SyntheticLabels_target(targ, ver, name, namespace) ==
    LET target_name == IF targ.kind = "model" /\ Truthy(ver)
                       THEN targ.name \o <<"_", "v">> \o PyStr(ver)
                       ELSE IF targ.kind = "source" THEN S_source_ \o targ.table_name
                       ELSE targ.name
    IN  [err |-> IF targ.kind \in {"model", "node", "source"} THEN NoError ELSE "TypeError",
         test_type |-> IF namespace # None THEN namespace.v \o <<"_">> \o name ELSE name,
         test_name |-> target_name]

\* the two labels handed to synthesize_generic_test_names
SyntheticLabels(targ, ver, name, namespace) ==
    LET target_name == IF targ.kind = "model" /\ Truthy(ver)
                       THEN targ.name \o <<"_", "v">> \o PyStr(ver)
                       ELSE targ.name
        local == IF targ.kind = "source" THEN S_source_ \o name ELSE name
    IN  [err |-> IF targ.kind \in {"model", "node", "source"} THEN NoError ELSE "TypeError",
         test_type |-> IF namespace # None THEN namespace.v \o <<"_">> \o local ELSE local,
         test_name |-> target_name]

Labelled(labels, names) ==
    [err |-> NoError, labels |-> labels,
     short_name |-> names.short_name, full_name |-> names.full_name]

\* line 281: the labels go to synthesize_generic_test_names
SynthesizeLabelled(labels, args) ==
    IF labels.err # NoError
    THEN [err |-> labels.err, labels |-> labels, short_name |-> <<>>, full_name |-> <<>>]
    ELSE Labelled(labels,
                  synthesize_generic_test_names(labels.test_type, labels.test_name, args))

get_synthetic_test_names(targ, ver, name, namespace, args) ==
    SynthesizeLabelled(SyntheticLabels(targ, ver, name, namespace), args)

----------------------------------------------------------------------------
(* TestBuilder.__init__ *)

NoLabels == [err |-> NoError, test_type |-> <<>>, test_name |-> <<>>]

\* the builder as an exception leaves it: only the exception is observable
Raised(e, decl, events) ==
    [err |-> e, data_test |-> decl, warned |-> events, args |-> EmptyDict,
     config |-> EmptyDict, name |-> None, namespace |-> None, description |-> PStr(<<>>),
     compiled_name |-> PStr(<<>>), fqn_name |-> PStr(<<>>), labels |-> NoLabels]

\* the builder before it is named
Unnamed(x, groups, args0, config0) ==
    [err |-> NoError, data_test |-> x.data_test, warned |-> x.warned,
     args |-> Del(args0, K_description), config |-> config0, name |-> groups.test_name,
     namespace |-> groups.test_namespace,
     description |-> GetOr(args0, K_description, PStr(<<>>)),
     compiled_name |-> PStr(<<>>), fqn_name |-> PStr(<<>>), labels |-> NoLabels]

\* lines 165-170: the synthesized names, and the alias a hashed name is kept
\* under
InitSynthesized(built, names) ==
    IF names.err # NoError THEN Raised(names.err, built.data_test, built.warned)
    ELSE [built EXCEPT
            !.compiled_name = PStr(names.short_name),
            !.fqn_name = PStr(names.full_name),
            !.labels = names.labels,
            !.config = IF names.short_name # names.full_name /\ ~Has(built.config, K_alias)
                       THEN Set(built.config, K_alias, PStr(names.short_name))
                       ELSE built.config]

\* lines 158-170: the user's name, or the synthesized names
InitNames(built, targ, ver) ==
    IF Has(built.args, K_name)
    THEN [built EXCEPT !.compiled_name = Get(built.args, K_name),
                       !.fqn_name = Get(built.args, K_name),
                       !.args = Del(built.args, K_name)]
    ELSE InitSynthesized(built,
                         get_synthetic_test_names(targ, ver, built.name.v, built.namespace,
                                                  built.args))

\* lines 135-136: the rendered nested `config` is merged over the legacy one
InitNested(x, targ, ver, groups, legacy, nested) ==
    IF nested.err # NoError THEN Raised(nested.err, x.data_test, x.warned)
    ELSE InitNames(Unnamed(x, groups,
                           Del(legacy.args, K_config),
                           Update(legacy.config, nested.config)),
                   targ, ver)

\* lines 132-136: the legacy arguments, then the nested `config`
InitConfig(x, targ, ver, groups, legacy) ==
    IF legacy.err # NoError THEN Raised(legacy.err, x.data_test, x.warned)
    ELSE InitNested(x, targ, ver, groups, legacy,
                    IF Has(legacy.args, K_config)
                    THEN _render_values(Get(legacy.args, K_config))
                    ELSE [err |-> NoError, config |-> EmptyDict])

\* lines 123-132: the test name is matched, then the config is resolved
InitMatched(x, targ, ver, groups, args0) ==
    IF ~groups.matched
    THEN Raised("UnexpectedTestNamePatternError", x.data_test, x.warned)
    ELSE InitConfig(x, targ, ver, groups, _process_legacy_args(args0))

\* lines 121-123: the model string is built and stored under `model`
InitModel(x, targ, ver, model_str) ==
    IF model_str.err # NoError THEN Raised(model_str.err, x.data_test, x.warned)
    ELSE InitMatched(x, targ, ver, TEST_NAME_PATTERN_match(x.test_name.v),
                     Set(x.test_args, K_model, PStr(model_str.value)))

\* lines 112-121: the declaration is normalized and `model` refused
InitExtracted(x, targ, ver) ==
    IF x.err # NoError THEN Raised(x.err, x.data_test, x.warned)
    ELSE IF Has(x.test_args, K_model)
    THEN Raised("TestArgIncludesModelError", x.data_test, x.warned)
    ELSE InitModel(x, targ, ver, build_model_str(targ, ver))

TestBuilder_init(decl, targ, col, ver, require_arguments) ==
    InitExtracted(extract_test_args(decl, col, require_arguments), targ, ver)

----------------------------------------------------------------------------
(* The explored inputs *)

S_unique == <<"u", "n", "i", "q", "u", "e">>
S_pkg_eq == <<"p", "k", "g", ".", "e", "q">>
S_9x == <<"9", "x">>
S_a_9 == <<"a", ".", "9">>
S_orders == <<"o", "r", "d", "e", "r", "s">>
S_raw == <<"r", "a", "w">>
S_id == <<"i", "d">>
S_w == <<"w">>
K_to == <<"t", "o">>
K_field == <<"f", "i", "e", "l", "d">>
K_extra == <<"e", "x", "t", "r", "a">>

Absent == [t |-> "absent", v |-> <<>>]
Opt(key, val) == IF val.t = "absent" THEN <<>> ELSE <<E(key, val)>>

\* shape (a): the test name under `test_name`, the arguments beside it
ShapeA(token, entries) == PDict(<<E(K_test_name, token)>> \o entries)
\* shape (b): one key, the test name, over the argument mapping
ShapeB(token, entries) == PDict(<<E(token, PDict(entries))>>)
Shapes(token, entries) == {ShapeA(PStr(token), entries), ShapeB(token, entries)}

Scenario(decl, targ, col, ver, require_arguments) ==
    [decl |-> decl, target |-> targ, column_name |-> col, version |-> ver,
     flag |-> require_arguments]

ModelTarget == Target("model", S_orders, <<>>, <<>>)
NodeTarget == Target("node", S_orders, <<>>, <<>>)
SourceTarget == Target("source", S_raw \o <<"_">> \o S_orders, S_raw, S_orders)
OtherTarget == Target("other", S_orders, <<>>, <<>>)

PadLens == {1, MaxPadLen}
Pad(n) == <<E(K_to, PStr(Rep("p", n)))>>

LegacyVals == {Absent, None, PBool(FALSE), PInt(0), PInt(5), PStr(S_w)}
NestedVals == {None, PBool(FALSE), PInt(5), PStr(S_w)}
NestedConfigs(key) ==
    {Absent, EmptyDict, PDict(<<E(K_extra, PInt(1))>>)}
        \cup {PDict(<<E(key, val)>>) : val \in NestedVals}

\* one recognized key, at top level and/or under `config`
ConfigScenarios ==
    UNION {UNION {UNION {
        {Scenario(decl, ModelTarget, None, None, FALSE) :
            decl \in Shapes(S_unique, Opt(CONFIG_ARGS[i], legacy) \o Pad(1) \o Opt(K_config, nested))}
        : nested \in NestedConfigs(CONFIG_ARGS[i])}
        : legacy \in LegacyVals}
        : i \in 1..Len(CONFIG_ARGS)}

\* an alias, at top level and/or under `config`, with a name long enough to
\* be hashed
AliasScenarios ==
    UNION {UNION {
        {Scenario(decl, ModelTarget, None, None, FALSE) :
            decl \in Shapes(S_unique, Opt(K_alias, legacy) \o Pad(MaxPadLen) \o Opt(K_config, nested))}
        : nested \in NestedConfigs(K_alias)}
        : legacy \in LegacyVals}

\* templated config values
RenderScenarios ==
    UNION {UNION {
        {Scenario(decl, ModelTarget, None, None, FALSE) :
            decl \in Shapes(S_unique, Opt(CONFIG_ARGS[1], legacy) \o Opt(K_config, nested))}
        : nested \in {Absent, PDict(<<E(K_alias, PStr(T_none))>>),
                      PDict(<<E(K_extra, PStr(T_undefined))>>)}}
        : legacy \in {Absent, PStr(T_undefined), PStr(T_none), PStr(T_one)}}

\* test name tokens, targets, versions and column names
TargetScenarios ==
    UNION {UNION {UNION {UNION {UNION {
        {Scenario(decl, targ, col, ver, FALSE) : decl \in Shapes(token, Pad(n))}
        : n \in PadLens}
        : col \in {None, PStr(S_id)}}
        : ver \in {None, PInt(2)}}
        : targ \in {ModelTarget, NodeTarget, SourceTarget, OtherTarget}}
        : token \in {S_unique, S_pkg_eq, S_9x, S_a_9}}

UserNames == {Absent, PStr(<<"n">>), PStr(<<>>), PStr(Rep("n", MaxUserNameLen))}

\* user names and descriptions
NameScenarios ==
    UNION {UNION {UNION {
        {Scenario(decl, ModelTarget, None, None, FALSE) :
            decl \in Shapes(S_unique, Opt(K_name, name) \o Pad(n) \o Opt(K_description, descr))}
        : descr \in {Absent, PStr(S_w)}}
        : name \in UserNames}
        : n \in PadLens}

ArgumentsVals ==
    {Absent, None, EmptyDict, PDict(<<E(K_field, PStr(S_id))>>),
     PDict(<<E(K_to, PStr(S_id)), E(CONFIG_ARGS[1], PStr(S_w))>>)}

\* the `arguments` property, with and without the flag
ArgumentsScenarios ==
    UNION {UNION {UNION {UNION {UNION {
        {Scenario(decl, ModelTarget, col, None, require_arguments) :
            decl \in Shapes(S_unique, plain \o Opt(K_arguments, arguments) \o Opt(K_config, nested))}
        : nested \in {Absent, PDict(<<E(CONFIG_ARGS[5], PInt(5))>>)}}
        : plain \in {<<>>, Pad(1)}}
        : arguments \in ArgumentsVals}
        : col \in {None, PStr(S_id)}}
        : require_arguments \in BOOLEAN}

\* declarations of neither shape, and the reserved argument
InvalidScenarios ==
    {Scenario(decl, ModelTarget, None, None, FALSE) :
        decl \in {PStr(S_unique), PList(<<PStr(S_unique)>>), EmptyDict,
                  PDict(<<E(S_unique, EmptyDict), E(K_to, PStr(S_id))>>),
                  PDict(<<E(S_unique, PStr(S_id))>>),
                  PDict(<<E(S_unique, None)>>),
                  ShapeA(PInt(7), Pad(1)),
                  ShapeA(None, <<>>),
                  PDict(Pad(1) \o <<E(K_test_name, PStr(S_unique))>>),
                  ShapeA(PStr(S_unique), <<E(K_model, PStr(S_orders))>>),
                  ShapeB(S_unique, <<E(K_model, PStr(S_orders))>>)}}

BuildScenarios ==
    ConfigScenarios \cup AliasScenarios \cup RenderScenarios \cup TargetScenarios
        \cup NameScenarios \cup ArgumentsScenarios \cup InvalidScenarios

TypeLens == {n \in 0..MaxTypeLen : n < 2 \/ n > MaxTypeLen - 5}
NameLens == {n \in 0..MaxNameLen : n < 2 \/ n > MaxNameLen - 4}

\* argument mappings of direct calls: scalars, lists, nested mappings, the
\* same mapping built in two orders, and the skipped `model`
SynthArgs ==
    {EmptyDict,
     PDict(<<E(K_column_name, PStr(S_id))>>),
     PDict(<<E(K_model, PStr(<<"r", "e", "f", "(", "x", ")">>)), E(K_column_name, PStr(S_id))>>),
     PDict(<<E(K_to, PStr(<<"r", "e", "f", "(", "x", ")", " ", "!">>)), E(K_field, PStr(S_id))>>),
     PDict(<<E(K_field, PStr(S_id)), E(K_to, PStr(<<"r", "e", "f", "(", "x", ")", " ", "!">>))>>),
     PDict(<<E(K_to, PList(<<PStr(S_id), PInt(-12), None, PList(<<PBool(TRUE)>>)>>))>>),
     PDict(<<E(K_extra, PBool(FALSE)), E(K_field, PInt(0))>>),
     PDict(<<E(K_to, PDict(<<E(K_field, PInt(1)), E(K_extra, PInt(2))>>))>>),
     PDict(<<E(K_to, PDict(<<E(K_extra, PInt(2)), E(K_field, PInt(1))>>))>>),
     PDict(<<E(K_to, PDict(<<E(K_field, PDict(<<E(K_extra, PStr(S_w))>>))>>))>>)}
        \cup {PDict(Pad(n)) : n \in PadLens}

NoCall == [op |-> "none", test_type |-> <<>>, test_name |-> <<>>, args |-> EmptyDict]

SynthCalls ==
    {[op |-> "synthesize", test_type |-> Rep("t", tl), test_name |-> Rep("m", nl), args |-> a] :
        tl \in TypeLens, nl \in NameLens, a \in SynthArgs}

NoRet == [op |-> "none"]

----------------------------------------------------------------------------
(* The state machine: a caller prepares its inputs, then calls one operation *)

Init ==
    /\ pc = "authored"
    /\ warned = <<>>
    /\ ret = NoRet
    /\ \/ /\ call \in SynthCalls
          /\ data_test = EmptyDict
          /\ target = ModelTarget
          /\ column_name = None
          /\ version = None
          /\ flag = FALSE
       \/ /\ call = NoCall
          /\ \E sc \in BuildScenarios :
                /\ data_test = sc.decl
                /\ target = sc.target
                /\ column_name = sc.column_name
                /\ version = sc.version
                /\ flag = sc.flag
    /\ authored = data_test

\* what the caller sees of each call: the value returned or the exception
\* raised, its own declaration object, and the events fired
SynthesizeReturns(names) ==
    ret' = [op |-> "synthesize", short_name |-> names.short_name,
            full_name |-> names.full_name]

ExtractReturns(x) ==
    /\ ret' = [op |-> "extract", err |-> x.err, test_name |-> x.test_name,
               test_args |-> x.test_args]
    /\ data_test' = x.data_test
    /\ warned' = x.warned

ConstructReturns(b) ==
    /\ ret' = [op |-> "construct", err |-> b.err, args |-> b.args, config |-> b.config,
               name |-> b.name, namespace |-> b.namespace,
               description |-> b.description, compiled_name |-> b.compiled_name,
               fqn_name |-> b.fqn_name, labels |-> b.labels]
    /\ data_test' = b.data_test
    /\ warned' = b.warned

\* synthesize_generic_test_names(test_type, test_name, args)
Synthesize ==
    /\ pc = "authored"
    /\ call.op = "synthesize"
    /\ SynthesizeReturns(synthesize_generic_test_names(call.test_type, call.test_name,
                                                       call.args))
    /\ pc' = "synthesized"
    /\ UNCHANGED <<data_test, authored, target, column_name, version, flag, call, warned>>

\* TestBuilder.extract_test_args(data_test, column_name)
ExtractTestArgs ==
    /\ pc = "authored"
    /\ call.op = "none"
    /\ ExtractReturns(extract_test_args(data_test, column_name, flag))
    /\ pc' = "extracted"
    /\ UNCHANGED <<authored, target, column_name, version, flag, call>>

\* TestBuilder(data_test, target, package_name, render_ctx, column_name, version)
Construct ==
    /\ pc = "authored"
    /\ call.op = "none"
    /\ ConstructReturns(TestBuilder_init(data_test, target, column_name, version, flag))
    /\ pc' = "constructed"
    /\ UNCHANGED <<authored, target, column_name, version, flag, call>>

Next == Synthesize \/ ExtractTestArgs \/ Construct

Spec == Init /\ [][Next]_vars

----------------------------------------------------------------------------
(* Properties *)

\* what the normalizer makes of the declaration as authored
Normalized == extract_test_args(authored, column_name, flag)

\* the constructor got as far as the config resolver (line 132)
ReachedConfig ==
    /\ pc = "constructed"
    /\ Normalized.err = NoError
    /\ ~Has(Normalized.test_args, K_model)
    /\ target.kind \in {"model", "node", "source"}
    /\ TEST_NAME_PATTERN_match(Normalized.test_name.v).matched

Constructed == pc = "constructed" /\ ret.err = NoError

ConfigKeys == {CONFIG_ARGS[i] : i \in 1..Len(CONFIG_ARGS)}

\* the two places a recognized key may be supplied in
LegacyHas(key) == Has(Normalized.test_args, key)
LegacyVal(key) == GetOr(Normalized.test_args, key, None)
NestedHas(key) ==
    /\ Has(Normalized.test_args, K_config)
    /\ Has(Get(Normalized.test_args, K_config), key)
NestedVal(key) ==
    IF NestedHas(key) THEN Get(Get(Normalized.test_args, K_config), key) ELSE None

IsHex(c) == \E i \in 1..Len(HexDigits) : HexDigits[i] = c

\* C1: a direct call returns a short name of fewer than 64 characters; when
\* the full name has 64 or more, the short name begins with the first 30
\* characters of "{type}_{name}", ends with the 32 hexadecimal characters of
\* the full name's fingerprint, and differs from the full name.
C1_ShortNameBound ==
    pc = "synthesized" =>
        LET identifier == call.test_type \o <<"_">> \o call.test_name
            head == Prefix(identifier, 30)
        IN  /\ Len(ret.short_name) < 64
            /\ Len(ret.full_name) >= 64 =>
                /\ Len(ret.short_name) >= Len(head) + 32
                /\ Prefix(ret.short_name, Len(head)) = head
                /\ Suffix(ret.short_name, Len(ret.short_name) - 32) = md5(ret.full_name)
                /\ \A i \in 1..32 : IsHex(ret.short_name[Len(ret.short_name) - 32 + i])
                /\ ret.short_name # ret.full_name

C1_Witness ==
    /\ pc = "synthesized"
    /\ Len(ret.full_name) = 64
    /\ Len(call.test_type) + 1 + Len(call.test_name) > 30
    /\ Len(ret.short_name) = 63

\* C2 (as stated): construction raises SameKeyNestedError exactly when some
\* recognized key has a truthy value both at top level and under `config`.
C2_ConflictIffBothTruthy ==
    ReachedConfig =>
        (ret.err = "SameKeyNestedError"
            <=> \E key \in ConfigKeys : Truthy(LegacyVal(key)) /\ Truthy(NestedVal(key)))

\* C2 (amended): construction raises SameKeyNestedError exactly when some
\* recognized key has a truthy value at top level and is present, with any
\* value, under `config`.
C2_ConflictIffTruthyAndNested ==
    ReachedConfig =>
        (ret.err = "SameKeyNestedError"
            <=> \E key \in ConfigKeys : Truthy(LegacyVal(key)) /\ NestedHas(key))

C2_Witness ==
    /\ ReachedConfig
    /\ ret.err = "SameKeyNestedError"
    /\ \E key \in ConfigKeys : Truthy(LegacyVal(key)) /\ NestedHas(key) /\ ~Truthy(NestedVal(key))

\* C3: every successfully constructed descriptor has a compiled name that is
\* a non-empty string of fewer than 64 characters, synthesized or user-supplied.
C3_CompiledNameBound ==
    Constructed =>
        /\ isinstance(ret.compiled_name, "str")
        /\ Len(ret.compiled_name.v) > 0
        /\ Len(ret.compiled_name.v) < 64

\* the alias values the user supplied (null counts as not supplied), as they
\* are and as rendered
UserAliases ==
    LET supplied == {LegacyVal(K_alias), NestedVal(K_alias)} \ {None}
    IN  supplied \cup {get_rendered(a.v).value : a \in {x \in supplied : isinstance(x, "str")}}

\* C4: after construction, when the compiled name differs from the full name
\* the config has an alias: the compiled name when the user configured none,
\* the user's own alias when the user configured one.
C4_AliasOverride ==
    (Constructed /\ ret.compiled_name # ret.fqn_name) =>
        /\ Has(ret.config, K_alias)
        /\ UserAliases = {} => Get(ret.config, K_alias) = ret.compiled_name
        /\ UserAliases # {} => Get(ret.config, K_alias) \in UserAliases

IsShapeB(decl) ==
    /\ isinstance(decl, "dict")
    /\ ~Has(decl, K_test_name)
    /\ Len(decl.v) = 1
    /\ isinstance(decl.v[1].v, "dict")
    /\ ~Has(decl.v[1].v, K_test_name)

\* the shape (a) declarations of the test a shape (b) declaration encodes:
\* `test_name` written before or after the arguments
AsShapeA(decl) ==
    {PDict(<<E(K_test_name, PStr(decl.v[1].k))>> \o decl.v[1].v.v),
     PDict(decl.v[1].v.v \o <<E(K_test_name, PStr(decl.v[1].k))>>)}

\* C5: a shape (b) declaration and a shape (a) declaration of the same test
\* name and arguments, built with the same target, column name, version and
\* flag, give descriptors with equal args and equal config.
C5_ShapesAgree ==
    (Constructed /\ IsShapeB(authored)) =>
        \A decl \in AsShapeA(authored) :
            LET other == TestBuilder_init(decl, target, column_name, version, flag)
            IN  /\ other.err = NoError
                /\ PyEq(other.args, ret.args)
                /\ PyEq(other.config, ret.config)

C5_Witness ==
    /\ Constructed
    /\ IsShapeB(authored)
    /\ Len(ret.args.v) > 1
    /\ Len(ret.config.v) > 1

\* C6: two argument mappings that are equal as mappings give the same pair
\* of names, whatever the order their keys, nested ones included, were
\* inserted in.
C6_OrderIndependent ==
    pc = "synthesized" =>
        \A args2 \in SynthArgs :
            PyEq(args2, call.args) =>
                LET names == synthesize_generic_test_names(call.test_type, call.test_name, args2)
                IN  names.short_name = ret.short_name /\ names.full_name = ret.full_name

\* C7: the normalizer leaves the caller's declaration as it was, whether it
\* returns or raises.
C7_DeclarationUnchanged == pc = "extracted" => data_test = authored

\* C8: a recognized key supplied in exactly one of the two places, with a
\* value that is neither null nor a string, raises no conflict and is mapped
\* to that value in the resolved config.
C8_SingleLocationValue ==
    ReachedConfig =>
        \A key \in ConfigKeys :
            LET val == IF LegacyHas(key) THEN LegacyVal(key) ELSE NestedVal(key)
            IN  ((LegacyHas(key) # NestedHas(key)) /\ val.t \notin {"none", "str"}) =>
                    /\ ret.err # "SameKeyNestedError"
                    /\ ret.err = NoError => (Has(ret.config, key) /\ Get(ret.config, key) = val)

\* the argument mapping of the declaration as authored, in either shape
AuthoredArgs ==
    IF Has(authored, K_test_name) THEN Del(authored, K_test_name) ELSE authored.v[1].v

\* the normalizer returned, the flag is off and the declaration's argument
\* mapping holds an `arguments` key
FlagOffWithArguments ==
    /\ pc = "extracted"
    /\ ret.err = NoError
    /\ ~flag
    /\ Has(AuthoredArgs, K_arguments)

\* the keys of the `arguments` value, when it is a mapping
ArgumentsKeys ==
    IF isinstance(Get(AuthoredArgs, K_arguments), "dict")
    THEN {Get(AuthoredArgs, K_arguments).v[i].k : i \in 1..Len(Get(AuthoredArgs, K_arguments).v)}
    ELSE {}

\* C9 (as stated): with the flag off and an `arguments` key, the signal is
\* emitted and the returned mapping holds every key of `arguments` at top
\* level and no `arguments` key.
C9_ArgumentsMerged ==
    FlagOffWithArguments =>
        /\ warned = <<"arguments-property-in-generic-test-deprecation">>
        /\ ~Has(ret.test_args, K_arguments)
        /\ \A key \in ArgumentsKeys : Has(ret.test_args, key)

\* C9 (amended): with the flag off and an `arguments` key, the signal is
\* emitted and the returned mapping is the declaration's argument mapping
\* (with the column name, when one is given): `arguments` stays in it as one
\* ordinary argument with its value unchanged, and none of its keys is lifted.
C9_ArgumentsKept ==
    FlagOffWithArguments =>
        /\ warned = <<"arguments-property-in-generic-test-deprecation">>
        /\ Has(ret.test_args, K_arguments)
        /\ Get(ret.test_args, K_arguments) = Get(AuthoredArgs, K_arguments)
        /\ ret.test_args = (IF column_name # None
                            THEN Set(AuthoredArgs, K_column_name, column_name)
                            ELSE AuthoredArgs)

C9_Witness ==
    /\ FlagOffWithArguments
    /\ \E key \in ArgumentsKeys : ~Has(ret.test_args, key)
    /\ Len(ret.test_args.v) > 1

\* a source target whose names were synthesized
SourceSynthesized ==
    /\ Constructed
    /\ target.kind = "source"
    /\ ~Has(Normalized.test_args, K_name)

Namespaced(label) ==
    IF ret.namespace # None THEN ret.namespace.v \o <<"_">> \o label ELSE label

\* C10 (as stated): for a source target the type label is the test's name,
\* namespace first when there is one, without `source_`, and the target label
\* is `source_` followed by the table name.
C10_SourcePrefixOnTarget ==
    SourceSynthesized =>
        /\ ret.labels.test_type = Namespaced(ret.name.v)
        /\ ret.labels.test_name = S_source_ \o target.table_name

\* C10 (amended): for a source target the type label is `source_` followed by
\* the test's name, namespace first when there is one (`ns_source_name`), and
\* the target label is the target's own name.
C10_SourcePrefixOnType ==
    SourceSynthesized =>
        /\ ret.labels.test_type = Namespaced(S_source_ \o ret.name.v)
        /\ ret.labels.test_name = target.name

C10_Witness ==
    /\ SourceSynthesized
    /\ ret.namespace # None
    /\ ret.fqn_name.v = Namespaced(S_source_ \o ret.name.v) \o <<"_">> \o target.name
                            \o <<"_">> \o Rep("p", 1)

====
